---- MODULE Spec2Model ----
(***************************************************************************)
(* File converter backend: a relay in front of an asynchronous conversion  *)
(* service.                                                                *)
(*   - src/netlify/functions/convert.js : Remote-URL mode (handler)        *)
(*   - src/server.js                    : Upload mode (POST /api/convert), *)
(*                                        the validation gate              *)
(*                                        isTargetAllowed / CONVERSION_MAP *)
(* Every await of a handler is a step boundary: one action issues the      *)
(* external call, the next one receives its result (or its rejection).     *)
(***************************************************************************)
EXTENDS Integers, Sequences, FiniteSets, TLC

VARIABLES
    \* ---- Remote-URL mode, convert.js ----
    r_pc,        \* position of the handler: entry, create, sleep, fetch, returned
    event,       \* the invocation: [httpMethod, body]
    apiKey,      \* process.env.CLOUDCONVERT_API_KEY
    jobId,       \* id returned by the job-creation call
    i,           \* loop counter of the polling loop
    done,        \* loop flag
    fileOut,     \* <<>> for null, <<f>> once a file descriptor is taken
    j,           \* <<>> before the first fetch, <<response>> of the last fetch
    r_response,  \* <<>> until the handler returns, then <<[statusCode, body]>>
    nCreate,     \* job-creation calls issued
    nSleep,      \* sleeps started
    nFetch,      \* job-status fetches issued
    nReturned,   \* history: job-status fetches that returned a response
    sawFile,     \* history: some fetched response had export-1 finished with a file
    sawError,    \* history: some fetched response had job status "error"
    errFirst,    \* history: a fetched response had status "error" while no
                 \* response so far (that one included) had a finished export file
    firstTerminal, \* history: 0, or the index of the first fetched response with
                 \* a finished export file or with job status "error"
    sawEmpty,    \* history: some fetched response had export-1 finished without
                 \* a file, the job status not being "error"
    \* ---- Upload mode, server.js ----
    u_pc,        \* received, handler, errorHandler, create, upload, wait, responded
    req,         \* the multipart request as sent by the client
    reqFile,     \* req.file after the upload middleware: <<>> or <<file>>
    next_err,    \* error the middleware passed to next(): <<>> or <<err>>
    target,      \* lowercased target of the route handler
    job,         \* <<>> or <<job>> returned by jobs.create
    u_response,  \* <<>> until a response is sent, then <<[status, body]>>
    u_calls,     \* external calls issued for the request, in order
    upErr,       \* history: the rejection of the upload push, <<>> if none
    completedJob, \* <<>> or <<job>> that jobs.wait resolved with
    \* ---- Validation gate, server.js ----
    conversionMap, \* the CONVERSION_MAP object
    v_pc,        \* input, returned
    v_mime,      \* first argument of isTargetAllowed
    v_target,    \* second argument of isTargetAllowed
    v_result,    \* <<>> or <<[threw, value]>>
    \* ---- Two concurrent Remote-URL invocations, convert.js ----
    c_pc,        \* per invocation: start, create, sleep, fetch, returned
    c_jobId,     \* per invocation: its const jobId, 0 before the creation returns
    c_i,         \* per invocation: its loop counter
    c_done,      \* per invocation: its done flag
    c_fileOut,   \* per invocation: its fileOut
    c_url,       \* per invocation: job id in the URL of its status fetch in flight
    c_response,  \* per invocation: <<>> or <<response>>
    c_fetched,   \* history, per invocation: job ids whose status it has fetched
    svcJobs,     \* the service: number of jobs created so far
    svcPolls,    \* the service: per job, number of status fetches answered
    script       \* the service: per job, what its status fetches answer

rvars == <<r_pc, event, apiKey, jobId, i, done, fileOut, j, r_response,
           nCreate, nSleep, nFetch, nReturned, sawFile, sawError, errFirst,
           firstTerminal, sawEmpty>>
uvars == <<u_pc, req, reqFile, next_err, target, job, u_response, u_calls, upErr,
           completedJob>>
vvars == <<conversionMap, v_pc, v_mime, v_target, v_result>>
\* conversionMap is the one object of server.js that the route handler and
\* isTargetAllowed both read.
cvars == <<c_pc, c_jobId, c_i, c_done, c_fileOut, c_url, c_response, c_fetched,
           svcJobs, svcPolls, script>>
vars == <<rvars, uvars, vvars, cvars>>

(***************************************************************************)
(* Values shared by both modes: JavaScript undefined, file descriptors,    *)
(* tasks and jobs as the conversion service reports them.                  *)
(***************************************************************************)
\* The JavaScript value undefined, where a string is expected.
Undefined == "<undefined>"

\* Longest file list of an export task in the model.
MaxFiles == 2

\* Output file descriptors the service may report.
F1 == [url |-> "https://x/out.docx", filename |-> "out.docx", size |-> 1024,
       content_type |-> "application/vnd...document"]
F2 == [url |-> "https://x/out.png", filename |-> "out.png", size |-> 2048,
       content_type |-> "image/png"]
Files == {F1, F2}

\* The file lists of an export task: empty, or a first file (the only one the
\* handlers read) followed by up to MaxFiles - 1 copies of another file.
FileLists ==
    {<<>>} \cup {[k \in 1..n |-> IF k = 1 THEN f
                                 ELSE CHOOSE g \in Files : g # f] :
                   n \in 1..MaxFiles, f \in Files}

\* task.result of a task: absent, present without the field, or present.
NoResult == [present |-> FALSE, hasForm |-> FALSE, formUrl |-> Undefined,
             hasFiles |-> FALSE, files |-> <<>>]
ExportResults ==
    {NoResult, [NoResult EXCEPT !.present = TRUE]}
    \cup {[NoResult EXCEPT !.present = TRUE, !.hasFiles = TRUE, !.files = fs] :
            fs \in FileLists}
ImportResults ==
    {NoResult, [NoResult EXCEPT !.present = TRUE],
     [NoResult EXCEPT !.present = TRUE, !.hasForm = TRUE,
                      !.formUrl = "https://storage/upload"]}

ExportTasks == [name : {"export-1"}, status : {"waiting", "finished"},
                result : ExportResults]
ConvertTasks == [name : {"convert-1"}, status : {"finished"},
                 result : {NoResult}]
ImportTasks == [name : {"import-1"}, status : {"waiting"}, result : ImportResults]

\* Task lists of a job as reported after creation: convert-1 then export-1,
\* each present or not.
StatusTaskLists ==
    {<<>>} \cup {<<c>> : c \in ConvertTasks} \cup {<<e>> : e \in ExportTasks}
    \cup {<<c, e>> : c \in ConvertTasks, e \in ExportTasks}

\* data.data of a job-status response (also the job jobs.wait resolves with).
JobStates == [status : {"processing", "finished", "error"},
              tasks : StatusTaskLists]

\* tasks.find(t => t.name === "export-1" && t.status === "finished"):
\* <<>> for undefined, else <<first matching task>>.
FindExportAnyStatus(tasks) ==
    LET hits == {k \in 1..Len(tasks) : tasks[k].name = "export-1"}
    IN IF hits = {} THEN <<>>
       ELSE <<tasks[CHOOSE k \in hits : \A m \in hits : k <= m]>>
FindFinishedExport(tasks) ==
    LET hits == {k \in 1..Len(tasks) :
                    tasks[k].name = "export-1" /\ tasks[k].status = "finished"}
    IN IF hits = {} THEN <<>>
       ELSE <<tasks[CHOOSE k \in hits : \A m \in hits : k <= m]>>

\* exportTask?.result?.files?.[0] : <<>> when any link is missing.
FirstFile(exportTask) ==
    IF exportTask = <<>> THEN <<>>
    ELSE IF ~exportTask[1].result.present THEN <<>>
    ELSE IF ~exportTask[1].result.hasFiles THEN <<>>
    ELSE IF Len(exportTask[1].result.files) = 0 THEN <<>>
    ELSE <<exportTask[1].result.files[1]>>

(***************************************************************************)
(* Remote-URL mode: src/netlify/functions/convert.js                       *)
(***************************************************************************)
\* Attempts of the polling loop.
MaxAttempts == 40

\* A handler result { statusCode, body }; body is the object given to
\* JSON.stringify.
Response(statusCode, body) == [statusCode |-> statusCode, body |-> body]

\* !x for a string-or-undefined value.
FalsyUndefinedOnly(x) == x = Undefined
Falsy(x) == x = Undefined \/ x = ""

\* event.body as sent: missing, the empty string, text that is not JSON, the
\* JSON text null, or a JSON object with fileUrl and target present or not.
EventBodies ==
    [kind : {"undefined", "empty", "invalid", "null"},
     fileUrl : {Undefined}, target : {Undefined}]
    \cup [kind : {"object"}, fileUrl : {Undefined, "", "https://x/in.pdf"},
          target : {Undefined, "", "docx"}]
Events == [httpMethod : {"GET", "POST"}, body : EventBodies]
ApiKeys == {Undefined, "", "key"}

\* const { fileUrl, target } = JSON.parse(event.body || "{}"): the parse of
\* text that is not JSON throws, and so does destructuring null.
ParseBody(body) ==
    CASE body.kind \in {"undefined", "empty"} ->
            [threw |-> FALSE, message |-> "", fileUrl |-> Undefined, target |-> Undefined]
      [] body.kind = "invalid" ->
            [threw |-> TRUE, message |-> "Unexpected token in JSON",
             fileUrl |-> Undefined, target |-> Undefined]
      [] body.kind = "null" ->
            [threw |-> TRUE, message |-> "Cannot destructure property 'fileUrl'",
             fileUrl |-> Undefined, target |-> Undefined]
      [] OTHER ->
            [threw |-> FALSE, message |-> "", fileUrl |-> body.fileUrl,
             target |-> body.target]

\* catch (e): the generic failure.
CatchResponseBare(message) == Response(502, [message |-> message])
CatchResponse(message) ==
    Response(500, [error |-> "Server error", details |-> message])

\* The precondition gate: <<>> when the request passes, else <<response>>.
Gate(ev, key) ==
    IF ev.httpMethod # "POST" THEN <<Response(405, [error |-> "Use POST"])>>
    ELSE LET p == ParseBody(ev.body) IN
         IF p.threw THEN <<CatchResponse(p.message)>>
         ELSE IF Falsy(p.fileUrl) \/ Falsy(p.target)
              THEN <<Response(400, [error |-> "Provide fileUrl and target"])>>
         ELSE IF Falsy(key)
              THEN <<Response(500, [error |-> "Missing CLOUDCONVERT_API_KEY"])>>
         ELSE <<>>

\* What the job-creation call may do: reject, or resolve with data.data.id.
CreateIds == {Undefined, "", "job-1"}

\* const failed = j.data?.data?.status === "error"
FailedNever(data) == FALSE
Failed(data) == data.status = "error"

\* if (exportTask?.result?.files?.[0]) { ...; done = true; }: the flag after
\* the response data, d being the flag before.
DoneAfterExportFinished(data, d) ==
    IF FindFinishedExport(data.tasks) # <<>> THEN TRUE ELSE d
DoneAfter(data, d) ==
    IF FirstFile(FindFinishedExport(data.tasks)) # <<>> THEN TRUE ELSE d

\* The loop condition i < 40 && !done.
LoopContinuesOffByOne(k, d) == k <= MaxAttempts /\ ~d
LoopContinues(k, d) == k < MaxAttempts /\ ~d

\* The statements after the loop: the failure or the success result.
AfterLoopTimeout(fo) ==
    IF fo = <<>>
    THEN IF i + 1 >= MaxAttempts
         THEN Response(504, [error |-> "Conversion timed out"])
         ELSE Response(500, [error |-> "Conversion not finished or failed"])
    ELSE Response(200, [downloadUrl |-> fo[1].url, filename |-> fo[1].filename,
                        sizeBytes |-> fo[1].size, contentType |-> fo[1].content_type])
AfterLoopSwapped(fo) ==
    IF fo = <<>>
    THEN Response(500, [error |-> "Conversion not finished or failed"])
    ELSE Response(200, [downloadUrl |-> fo[1].url, filename |-> fo[1].url,
                        sizeBytes |-> fo[1].size, contentType |-> fo[1].content_type])
AfterLoop(fo) ==
    IF fo = <<>>
    THEN Response(500, [error |-> "Conversion not finished or failed"])
    ELSE Response(200, [downloadUrl |-> fo[1].url, filename |-> fo[1].filename,
                        sizeBytes |-> fo[1].size, contentType |-> fo[1].content_type])

RemoteIdle ==
    /\ r_pc = "idle" /\ event = [httpMethod |-> "GET", body |->
          [kind |-> "undefined", fileUrl |-> Undefined, target |-> Undefined]]
    /\ apiKey = Undefined /\ jobId = Undefined /\ i = 0 /\ done = FALSE
    /\ fileOut = <<>> /\ j = <<>> /\ r_response = <<>>
    /\ nCreate = 0 /\ nSleep = 0 /\ nFetch = 0 /\ nReturned = 0
    /\ sawFile = FALSE /\ sawError = FALSE /\ errFirst = FALSE
    /\ firstTerminal = 0 /\ sawEmpty = FALSE

RemoteInit ==
    /\ r_pc = "entry" /\ event \in Events /\ apiKey \in ApiKeys
    /\ jobId = Undefined /\ i = 0 /\ done = FALSE
    /\ fileOut = <<>> /\ j = <<>> /\ r_response = <<>>
    /\ nCreate = 0 /\ nSleep = 0 /\ nFetch = 0 /\ nReturned = 0
    /\ sawFile = FALSE /\ sawError = FALSE /\ errFirst = FALSE
    /\ firstTerminal = 0 /\ sawEmpty = FALSE

RemoteReturn(resp) ==
    /\ r_pc' = "returned"
    /\ r_response' = <<resp>>

\* Lines 5-24: the gate, then the job-creation call is issued.
HandlerEntry ==
    /\ UNCHANGED <<uvars, vvars, cvars>>
    /\ r_pc = "entry"
    /\ IF Gate(event, apiKey) # <<>>
       THEN /\ RemoteReturn(Gate(event, apiKey)[1])
            /\ UNCHANGED nCreate
       ELSE /\ r_pc' = "create"
            /\ nCreate' = nCreate + 1
            /\ UNCHANGED r_response
    /\ UNCHANGED <<event, apiKey, jobId, i, done, fileOut, j, nSleep, nFetch,
                   nReturned, sawFile, sawError, errFirst,
                   firstTerminal, sawEmpty>>

\* The job-creation call rejects: the catch block answers.
CreateFails ==
    /\ UNCHANGED <<uvars, vvars, cvars>>
    /\ r_pc = "create"
    /\ RemoteReturn(CatchResponse("Request failed"))
    /\ UNCHANGED <<event, apiKey, jobId, i, done, fileOut, j, nCreate, nSleep,
                   nFetch, nReturned, sawFile, sawError, errFirst,
                   firstTerminal, sawEmpty>>

\* The job-creation call resolves (lines 26-32): no id fails the request,
\* else the loop is entered and its first sleep started.
CreateReturns ==
    /\ UNCHANGED <<uvars, vvars, cvars>>
    /\ r_pc = "create"
    /\ \E id \in CreateIds :
         IF Falsy(id)
         THEN /\ RemoteReturn(Response(500, [error |-> "Failed to create job"]))
              /\ jobId' = id
              /\ UNCHANGED <<i, done, fileOut, nSleep>>
         ELSE /\ jobId' = id
              /\ done' = FALSE
              /\ fileOut' = <<>>
              /\ i' = 0
              /\ IF LoopContinues(0, FALSE)
                 THEN /\ r_pc' = "sleep"
                      /\ nSleep' = nSleep + 1
                      /\ UNCHANGED r_response
                 ELSE /\ RemoteReturn(AfterLoop(<<>>))
                      /\ UNCHANGED nSleep
    /\ UNCHANGED <<event, apiKey, j, nCreate, nFetch, nReturned, sawFile,
                   sawError, errFirst,
                   firstTerminal, sawEmpty>>

\* The 1.5 s timer fires (line 32) and the job status is requested (line 33).
SleepReturns ==
    /\ UNCHANGED <<uvars, vvars, cvars>>
    /\ r_pc = "sleep"
    /\ r_pc' = "fetch"
    /\ nFetch' = nFetch + 1
    /\ UNCHANGED <<event, apiKey, jobId, i, done, fileOut, j, r_response,
                   nCreate, nSleep, nReturned, sawFile, sawError, errFirst,
                   firstTerminal, sawEmpty>>

\* The job-status fetch rejects: the catch block answers.
FetchFails ==
    /\ UNCHANGED <<uvars, vvars, cvars>>
    /\ r_pc = "fetch"
    /\ RemoteReturn(CatchResponse("Request failed"))
    /\ UNCHANGED <<event, apiKey, jobId, i, done, fileOut, j, nCreate, nSleep,
                   nFetch, nReturned, sawFile, sawError, errFirst,
                   firstTerminal, sawEmpty>>

\* A fetched response shows export-1 finished with at least one output file
\* (stated on the response, apart from the handler's own search).
ExportFinishedWithFile(data) ==
    \E k \in 1..Len(data.tasks) :
        /\ data.tasks[k].name = "export-1"
        /\ data.tasks[k].status = "finished"
        /\ data.tasks[k].result.present
        /\ data.tasks[k].result.hasFiles
        /\ Len(data.tasks[k].result.files) > 0

\* A fetched response shows export-1 finished but no output file (no result, no
\* file list or an empty one), the job status not being "error".
ExportFinishedWithoutFile(data) ==
    /\ data.status # "error"
    /\ ~ExportFinishedWithFile(data)
    /\ \E k \in 1..Len(data.tasks) :
          data.tasks[k].name = "export-1" /\ data.tasks[k].status = "finished"

\* The job-status fetch resolves (lines 36-57): the rest of the loop body,
\* the loop test, and either the next sleep or the statements after the loop.
FetchReturns ==
    /\ UNCHANGED <<uvars, vvars, cvars>>
    /\ r_pc = "fetch"
    /\ \E data \in JobStates :
         LET f == FirstFile(FindFinishedExport(data.tasks))
             fileOut1 == IF f # <<>> THEN f ELSE fileOut
             done1 == DoneAfter(data, done)
             failed == Failed(data)
             i1 == IF failed THEN i ELSE i + 1
         IN /\ j' = <<data>>
            /\ fileOut' = fileOut1
            /\ done' = done1
            /\ i' = i1
            /\ nReturned' = nReturned + 1
            /\ sawFile' = (sawFile \/ ExportFinishedWithFile(data))
            /\ sawError' = (sawError \/ data.status = "error")
            /\ errFirst' = (errFirst \/ (data.status = "error" /\ ~sawFile
                                          /\ ~ExportFinishedWithFile(data)))
            /\ firstTerminal' =
                  IF firstTerminal = 0
                     /\ (ExportFinishedWithFile(data) \/ data.status = "error")
                  THEN nReturned + 1 ELSE firstTerminal
            /\ sawEmpty' = (sawEmpty \/ ExportFinishedWithoutFile(data))
            /\ IF ~failed /\ LoopContinues(i1, done1)
               THEN /\ r_pc' = "sleep"
                    /\ nSleep' = nSleep + 1
                    /\ UNCHANGED r_response
               ELSE /\ RemoteReturn(AfterLoop(fileOut1))
                    /\ UNCHANGED nSleep
    /\ UNCHANGED <<event, apiKey, jobId, nCreate, nFetch>>

RemoteNext ==
    \/ HandlerEntry
    \/ CreateFails
    \/ CreateReturns
    \/ SleepReturns
    \/ FetchFails
    \/ FetchReturns



(***************************************************************************)
(* Validation gate: src/server.js, CONVERSION_MAP and isTargetAllowed      *)
(* Target formats are strings of characters, so that toLowerCase is        *)
(* computed letter by letter.                                              *)
(***************************************************************************)
docx == <<"d", "o", "c", "x">>
pdf == <<"p", "d", "f">>
png == <<"p", "n", "g">>
jpg == <<"j", "p", "g">>
webp == <<"w", "e", "b", "p">>
mp4 == <<"m", "p", "4">>

\* Map source mime -> allowed target formats (arrays).
CONVERSION_MAP ==
    ("application/pdf" :> <<docx, png>>)
    @@ ("application/msword" :> <<pdf, docx>>)
    @@ ("application/vnd.openxmlformats-officedocument.wordprocessingml.document"
            :> <<pdf>>)
    @@ ("image/jpeg" :> <<png, webp, jpg>>)
    @@ ("image/png" :> <<jpg, webp, pdf, png>>)
    @@ ("image/webp" :> <<jpg, png>>)
    @@ ("text/plain" :> <<pdf>>)

\* CONVERSION_MAP is an object literal: besides its own keys, a property read
\* finds what it inherits from Object.prototype (functions, and the
\* prototype object itself), none of which is an array.
ObjectPrototypeKeys ==
    {"constructor", "__proto__", "toString", "toLocaleString", "valueOf",
     "hasOwnProperty", "isPrototypeOf", "propertyIsEnumerable"}

\* The property read map[key]: an own array, an inherited value, or undefined.
GetProperty(map, key) ==
    IF key \in DOMAIN map THEN [kind |-> "array", items |-> map[key]]
    ELSE IF key \in ObjectPrototypeKeys THEN [kind |-> "inherited", items |-> <<>>]
    ELSE [kind |-> "undefined", items |-> <<>>]

\* String.prototype.toLowerCase on the letters the model uses.
UpperLetters == <<"B", "C", "D", "E", "F", "G", "J", "M", "N", "O", "P", "W", "X">>
LowerLetters == <<"b", "c", "d", "e", "f", "g", "j", "m", "n", "o", "p", "w", "x">>
LowerChar(c) ==
    IF \E k \in 1..Len(UpperLetters) : UpperLetters[k] = c
    THEN LowerLetters[CHOOSE k \in 1..Len(UpperLetters) : UpperLetters[k] = c]
    ELSE c
ToLowerCase(s) == [k \in 1..Len(s) |-> LowerChar(s[k])]

\* Array.prototype.includes
Includes(arr, x) == \E k \in 1..Len(arr) : arr[k] = x

\* function isTargetAllowed(mime, target), target a string. The result is
\* [threw, value]: allowed.includes is not a function when the property read
\* found an inherited value, and the call throws a TypeError.
isTargetAllowed(map, mime, tgt) ==
    LET got == GetProperty(map, mime)
        allowed == IF got.kind = "undefined" THEN <<>> ELSE got.items
    IN IF got.kind = "inherited" THEN [threw |-> TRUE, value |-> FALSE]
       ELSE [threw |-> FALSE, value |-> Includes(allowed, ToLowerCase(tgt))]

\* Every spelling of a lowercase target in upper and lower case letters.
UpperChar(c) ==
    IF \E k \in 1..Len(LowerLetters) : LowerLetters[k] = c
    THEN UpperLetters[CHOOSE k \in 1..Len(LowerLetters) : LowerLetters[k] = c]
    ELSE c
IsCaseVariant(s, t) ==
    /\ Len(s) = Len(t)
    /\ \A k \in 1..Len(t) : s[k] = t[k] \/ s[k] = UpperChar(t[k])
CaseVariants(t) ==
    {s \in [1..Len(t) -> {t[k] : k \in 1..Len(t)} \cup {UpperChar(t[k]) : k \in 1..Len(t)}] :
        IsCaseVariant(s, t)}

\* Arguments the gate is applied to: the keys of the map, a content type it
\* lacks, and two names Object.prototype defines; every spelling of the
\* known targets, an unknown target and the empty string.
GateMimes == DOMAIN CONVERSION_MAP \cup {"text/html", "constructor", "__proto__"}
GateTargets ==
    UNION {CaseVariants(t) : t \in {docx, pdf, png, jpg, webp, mp4}} \cup {<<>>}

ValidateInit ==
    /\ v_pc = "input"
    /\ v_mime \in GateMimes
    /\ v_target \in GateTargets
    /\ v_result = <<>>

\* One call of isTargetAllowed(v_mime, v_target).
CallIsTargetAllowed ==
    /\ v_pc = "input"
    /\ v_result' = <<isTargetAllowed(conversionMap, v_mime, v_target)>>
    /\ v_pc' = "returned"
    /\ UNCHANGED <<conversionMap, v_mime, v_target>>
    /\ UNCHANGED <<rvars, u_pc, req, reqFile, next_err, target, job, u_response,
                   u_calls, upErr, completedJob, cvars>>

ValidateNext == CallIsTargetAllowed


(***************************************************************************)
(* Upload mode: src/server.js, POST /api/convert                           *)
(***************************************************************************)
\* The JavaScript value null in a response body.
Null == "<null>"

\* Default of process.env.MAX_FILE_SIZE_MB, and the multer limit in bytes.
MAX_FILE_SIZE_MB == 25
FileSizeLimit == MAX_FILE_SIZE_MB * 1024 * 1024

\* The banned list of the file filter.
bannedWithoutShell ==
    <<"application/x-msdownload", "application/x-dosexec",
      "application/x-executable", "application/x-binary">>
banned ==
    <<"application/x-msdownload", "application/x-dosexec",
      "application/x-executable", "application/x-sh", "application/x-binary">>

\* The file part of a request: declared content types that are supported,
\* unsupported, banned, or a name Object.prototype defines (a part header
\* "Content-Type: constructor"); sizes under and over the limit.
UploadMimes ==
    {"image/png", "application/pdf", "text/html", "constructor",
     "application/x-msdownload", "application/x-dosexec",
     "application/x-executable", "application/x-sh", "application/x-binary"}
UploadFiles ==
    [originalname : {"in.png"}, mimetype : UploadMimes,
     size : {1024, FileSizeLimit + 1}]

\* req.body.target as the multipart parser leaves it: undefined when the
\* field is not sent, a string, or an array when the field is sent more than
\* once (or as target[]).
UploadTargets ==
    [kind : {"undefined", "array"}, value : {<<>>}]
    \cup [kind : {"string"},
          value : {<<>>, pdf, <<"P", "D", "F">>, <<"P", "n", "g">>, mp4}]

Requests == [file : {<<>>} \cup {<<f>> : f \in UploadFiles}, target : UploadTargets]

\* A sent response: res.status(status).json(body).
Sent(status, body) == [status |-> status, body |-> body]

\* badRequest(res, msg, details) and serverError(res, msg, details); details
\* is <<>> when the argument is not given.
badRequest(msg, details) ==
    Sent(400, IF details = <<>> THEN [error |-> msg]
              ELSE [error |-> msg, details |-> details[1]])
serverError(msg, details) ==
    Sent(500, IF details = <<>> THEN [error |-> msg]
              ELSE [error |-> msg, details |-> details[1]])

\* Errors a rejected call of the conversion service can carry: an axios
\* error without a response (no connection), an axios error with the
\* upstream status and payload, or any other exception.
AxiosErrors ==
    [kind : {"axios"}, code : {""}, hasResponse : {FALSE}, status : {0},
     data : {Undefined}, message : {"Network Error"}]
    \cup [kind : {"axios"}, code : {""}, hasResponse : {TRUE},
          status : {304, 403, 503, 600},
          data : {Undefined, "", "quota exceeded"}, message : {"Request failed"}]
OtherErrors ==
    [kind : {"other"}, code : {""}, hasResponse : {FALSE}, status : {0},
     data : {Undefined}, message : {"boom"}]
TypeError(message) ==
    [kind |-> "other", code |-> "", hasResponse |-> FALSE, status |-> 0,
     data |-> Undefined, message |-> message]
MulterError(code) ==
    [kind |-> "multer", code |-> code, hasResponse |-> FALSE, status |-> 0,
     data |-> Undefined, message |-> "File too large"]
FilterError ==
    [kind |-> "other", code |-> "", hasResponse |-> FALSE, status |-> 0,
     data |-> Undefined, message |-> "Unsupported file type for security reasons."]

\* The catch block of the route handler.
CatchBlockNoRangeCheck(err) ==
    IF err.kind = "axios"
    THEN LET status == IF err.hasResponse /\ err.status # 0 THEN err.status ELSE 500
             data == IF err.hasResponse /\ ~Falsy(err.data) THEN err.data ELSE Null
         IN Sent(status,
                 [error |-> "Upstream conversion error.",
                  details |-> [status |-> status, data |-> data]])
    ELSE serverError("Unexpected server error.", <<[message |-> err.message]>>)
CatchBlock(err) ==
    IF err.kind = "multer"
    THEN IF err.code = "LIMIT_FILE_SIZE"
         THEN badRequest("Max file size is ${MAX_FILE_SIZE_MB}MB.", <<>>)
         ELSE badRequest("Upload error.",
                         <<[code |-> err.code, message |-> err.message]>>)
    ELSE IF err.kind = "axios"
    THEN LET status == IF err.hasResponse /\ err.status # 0 THEN err.status ELSE 500
             data == IF err.hasResponse /\ ~Falsy(err.data) THEN err.data ELSE Null
         IN Sent(IF status >= 400 /\ status < 600 THEN status ELSE 500,
                 [error |-> "Upstream conversion error.",
                  details |-> [status |-> status, data |-> data]])
    ELSE serverError("Unexpected server error.", <<[message |-> err.message]>>)

\* Jobs jobs.create may resolve with: the import-1 task present or not, its
\* result absent, without the upload form, or complete.
CreatedJobs ==
    [id : {"job-1"},
     tasks : {<<>>} \cup {<<t>> : t \in ImportTasks}
             \cup {<<t, c>> : t \in ImportTasks, c \in ConvertTasks}]

\* job.tasks.find(t => t.name === 'import-1')
FindImport(tasks) ==
    LET hits == {k \in 1..Len(tasks) : tasks[k].name = "import-1"}
    IN IF hits = {} THEN <<>>
       ELSE <<tasks[CHOOSE k \in hits : \A m \in hits : k <= m]>>

UploadInit ==
    /\ u_pc = "received" /\ req \in Requests /\ reqFile = <<>> /\ next_err = <<>>
    /\ target = <<>> /\ job = <<>> /\ u_response = <<>> /\ u_calls = <<>>
    /\ upErr = <<>> /\ completedJob = <<>>

Respond(resp) ==
    /\ u_pc' = "responded"
    /\ u_response' = <<resp>>

\* The file filter of the upload middleware: TRUE when the file is refused.
FileFilterRejectsNoShell(file) == Includes(bannedWithoutShell, file.mimetype)
FileFilterRejects(file) == Includes(banned, file.mimetype)

\* upload.single('file'): the file filter runs when the part starts, the
\* size limit while its bytes are read; either failure is passed to next(err)
\* and the route handler is skipped. Otherwise req.file is set (undefined
\* when no file part was sent) and the route handler runs.
UploadSingle ==
    /\ u_pc = "received"
    /\ IF req.file # <<>> /\ FileFilterRejects(req.file[1])
       THEN /\ next_err' = <<FilterError>>
            /\ u_pc' = "errorHandler"
            /\ UNCHANGED reqFile
       ELSE IF req.file # <<>> /\ req.file[1].size > FileSizeLimit
       THEN /\ next_err' = <<MulterError("LIMIT_FILE_SIZE")>>
            /\ u_pc' = "errorHandler"
            /\ UNCHANGED reqFile
       ELSE /\ reqFile' = req.file
            /\ u_pc' = "handler"
            /\ UNCHANGED next_err
    /\ UNCHANGED <<req, target, job, u_response, u_calls, upErr, conversionMap>>
    /\ UNCHANGED <<rvars, v_pc, v_mime, v_target, v_result, cvars>>
    /\ UNCHANGED completedJob

\* The final error handler app.use((err, req, res, next) => ...).
ErrorHandler ==
    /\ u_pc = "errorHandler"
    /\ Respond(Sent(500, [error |-> "Unhandled error"]))
    /\ UNCHANGED <<req, reqFile, next_err, target, job, u_calls, upErr, conversionMap>>
    /\ UNCHANGED <<rvars, v_pc, v_mime, v_target, v_result, cvars>>
    /\ UNCHANGED completedJob

\* (req.body?.target || '').toLowerCase(): [threw, value]; an array has no
\* toLowerCase.
LowerTargetKept(t) ==
    IF t.kind = "undefined" THEN [threw |-> FALSE, value |-> <<>>]
    ELSE IF t.kind = "array" THEN [threw |-> TRUE, value |-> <<>>]
    ELSE [threw |-> FALSE, value |-> t.value]
LowerTarget(t) ==
    IF t.kind = "undefined" THEN [threw |-> FALSE, value |-> <<>>]
    ELSE IF t.kind = "array" THEN [threw |-> TRUE, value |-> <<>>]
    ELSE [threw |-> FALSE, value |-> ToLowerCase(t.value)]

\* Lines 93-111 of the route handler: <<>> when the request is valid, else
\* <<response>> (a thrown error answered by the catch block included).
ValidateRequest(map, file, t) ==
    IF file = <<>>
    THEN <<badRequest("No file uploaded. Use field name \"file\".", <<>>)>>
    ELSE IF LowerTarget(t).threw
    THEN <<CatchBlock(TypeError("toLowerCase is not a function"))>>
    ELSE IF LowerTarget(t).value = <<>>
    THEN <<badRequest("Missing target format. Include a \"target\" field (e.g., pdf, docx, png).", <<>>)>>
    ELSE IF GetProperty(map, file[1].mimetype).kind = "undefined"
    THEN <<badRequest("This file type is not supported yet.",
                      <<[receivedMime |-> file[1].mimetype,
                         supportedMimes |-> DOMAIN map]>>)>>
    ELSE IF isTargetAllowed(map, file[1].mimetype, LowerTarget(t).value).threw
    THEN <<CatchBlock(TypeError("allowed.includes is not a function"))>>
    ELSE IF ~isTargetAllowed(map, file[1].mimetype, LowerTarget(t).value).value
    THEN <<badRequest("Target format not allowed for this file type.",
                      <<[sourceMime |-> file[1].mimetype,
                         allowedTargets |-> GetProperty(map, file[1].mimetype).items]>>)>>
    ELSE <<>>

\* The route handler up to its first await (lines 93-124): validation, then
\* cloudConvert.jobs.create is called.
RouteHandler ==
    /\ u_pc = "handler"
    /\ target' = IF reqFile = <<>> THEN target ELSE LowerTarget(req.target).value
    /\ IF ValidateRequest(conversionMap, reqFile, req.target) # <<>>
       THEN /\ Respond(ValidateRequest(conversionMap, reqFile, req.target)[1])
            /\ UNCHANGED u_calls
       ELSE /\ u_pc' = "create"
            /\ u_calls' = Append(u_calls, "jobs.create")
            /\ UNCHANGED u_response
    /\ UNCHANGED <<req, reqFile, next_err, job, upErr, conversionMap>>
    /\ UNCHANGED <<rvars, v_pc, v_mime, v_target, v_result, cvars>>
    /\ UNCHANGED completedJob

\* jobs.create rejects: the catch block answers.
JobCreateFails ==
    /\ u_pc = "create"
    /\ \E err \in AxiosErrors \cup OtherErrors : Respond(CatchBlock(err))
    /\ UNCHANGED <<req, reqFile, next_err, target, job, u_calls, upErr, conversionMap>>
    /\ UNCHANGED <<rvars, v_pc, v_mime, v_target, v_result, cvars>>
    /\ UNCHANGED completedJob

\* jobs.create resolves (lines 126-143): the import task is looked up, and
\* the file is pushed to the signed upload URL.
JobCreateReturns ==
    /\ u_pc = "create"
    /\ \E jb \in CreatedJobs :
         LET importTask == FindImport(jb.tasks)
         IN /\ job' = <<jb>>
            /\ IF importTask = <<>> \/ ~importTask[1].result.present
               THEN /\ Respond(serverError(
                          "Failed to initialize upload with conversion service.", <<>>))
                    /\ UNCHANGED u_calls
               ELSE IF ~importTask[1].result.hasForm
               THEN /\ Respond(CatchBlock(TypeError(
                          "Cannot read properties of undefined (reading 'url')")))
                    /\ UNCHANGED u_calls
               ELSE /\ u_pc' = "upload"
                    /\ u_calls' = Append(u_calls, "upload")
                    /\ UNCHANGED u_response
    /\ UNCHANGED <<req, reqFile, next_err, target, upErr, conversionMap>>
    /\ UNCHANGED <<rvars, v_pc, v_mime, v_target, v_result, cvars>>
    /\ UNCHANGED completedJob

\* The push to the signed URL rejects with an axios error.
UploadFailsSwallowed ==
    /\ u_pc = "upload"
    /\ \E err \in AxiosErrors : upErr' = <<err>>
    /\ u_pc' = "wait"
    /\ u_calls' = Append(u_calls, "jobs.wait")
    /\ UNCHANGED <<req, reqFile, next_err, target, job, u_response, conversionMap>>
    /\ UNCHANGED <<rvars, v_pc, v_mime, v_target, v_result, cvars>>
    /\ UNCHANGED completedJob
UploadFails ==
    /\ u_pc = "upload"
    /\ \E err \in AxiosErrors :
         /\ upErr' = <<err>>
         /\ Respond(CatchBlock(err))
    /\ UNCHANGED <<req, reqFile, next_err, target, job, u_calls, conversionMap>>
    /\ UNCHANGED <<rvars, v_pc, v_mime, v_target, v_result, cvars>>
    /\ UNCHANGED completedJob

\* The push resolves (line 146): cloudConvert.jobs.wait(job.id) is called.
UploadReturns ==
    /\ u_pc = "upload"
    /\ u_pc' = "wait"
    /\ u_calls' = Append(u_calls, "jobs.wait")
    /\ UNCHANGED <<req, reqFile, next_err, target, job, u_response, upErr, conversionMap>>
    /\ UNCHANGED <<rvars, v_pc, v_mime, v_target, v_result, cvars>>
    /\ UNCHANGED completedJob

\* jobs.wait rejects: the catch block answers.
WaitFails ==
    /\ u_pc = "wait"
    /\ \E err \in AxiosErrors \cup OtherErrors : Respond(CatchBlock(err))
    /\ UNCHANGED <<req, reqFile, next_err, target, job, u_calls, upErr, conversionMap>>
    /\ UNCHANGED <<rvars, v_pc, v_mime, v_target, v_result, cvars>>
    /\ UNCHANGED completedJob

\* jobs.wait resolves (lines 147-162): the export task is looked up and the
\* result, or the failure, is sent.
WaitReturns ==
    /\ u_pc = "wait"
    /\ \E cj \in JobStates :
         LET fileInfo == FirstFile(FindFinishedExport(cj.tasks))
         IN /\ completedJob' = <<cj>>
            /\ IF fileInfo = <<>>
               THEN Respond(serverError(
                    "Conversion finished, but no output file was provided.", <<>>))
               ELSE Respond(Sent(200,
                    [downloadUrl |-> fileInfo[1].url,
                     filename |-> fileInfo[1].filename,
                     sizeBytes |-> fileInfo[1].size,
                     contentType |-> fileInfo[1].content_type,
                     meta |-> [original |-> [name |-> reqFile[1].originalname,
                                             mime |-> reqFile[1].mimetype,
                                             size |-> reqFile[1].size],
                               target |-> target]]))
    /\ UNCHANGED <<req, reqFile, next_err, target, job, u_calls, upErr, conversionMap>>
    /\ UNCHANGED <<rvars, v_pc, v_mime, v_target, v_result, cvars>>

UploadNext ==
    \/ UploadSingle
    \/ ErrorHandler
    \/ RouteHandler
    \/ JobCreateFails
    \/ JobCreateReturns
    \/ UploadFails
    \/ UploadReturns
    \/ WaitFails
    \/ WaitReturns

(***************************************************************************)
(* Claims on Remote-URL mode                                               *)
(***************************************************************************)
RemoteReturned == r_pc = "returned"
ResultFields == {"downloadUrl", "filename", "sizeBytes", "contentType"}
NoRemoteCall == nCreate = 0 /\ nSleep = 0 /\ nFetch = 0

\* The first file of the finished export-1 task of a fetched response, read
\* off the response itself.
ExportFileOf(data) ==
    LET k == CHOOSE k \in 1..Len(data.tasks) :
                /\ data.tasks[k].name = "export-1"
                /\ data.tasks[k].status = "finished"
                /\ data.tasks[k].result.present
                /\ data.tasks[k].result.hasFiles
                /\ Len(data.tasks[k].result.files) > 0
    IN data.tasks[k].result.files[1]

\* C4: the handler returns status 200 only if a fetched poll response
\* contained task export-1 finished with a non-empty file list, and then
\* downloadUrl, filename, sizeBytes and contentType of the body are url,
\* filename, size and content_type of the first file of that task.
C4_SuccessIsTheExportFile ==
    (RemoteReturned /\ r_response[1].statusCode = 200) =>
        /\ j # <<>>
        /\ ExportFinishedWithFile(j[1])
        /\ r_response[1].body =
              [downloadUrl |-> ExportFileOf(j[1]).url,
               filename |-> ExportFileOf(j[1]).filename,
               sizeBytes |-> ExportFileOf(j[1]).size,
               contentType |-> ExportFileOf(j[1]).content_type]

\* C4 witness: the service finishes on the 2nd poll with two output files and
\* the handler has answered 200.
C4_Witness ==
    /\ RemoteReturned
    /\ r_response[1].statusCode = 200
    /\ nFetch = 2
    /\ ExportFileOf(j[1]) = F2
    /\ \E k \in 1..Len(j[1].tasks) : Len(j[1].tasks[k].result.files) = 2

\* C5: when job status "error" is reported before any response shows
\* export-1 finished with an output file, the handler returns status 500 with
\* an error field and no result field.
C5_ErrorFirstIsFailure ==
    (RemoteReturned /\ errFirst) =>
        /\ r_response[1].statusCode = 500
        /\ "error" \in DOMAIN r_response[1].body
        /\ DOMAIN r_response[1].body \cap ResultFields = {}

\* C5 witness: the error status arrived on the 3rd poll, export-1 being
\* reported finished without a file, and the handler has returned.
C5_Witness ==
    /\ RemoteReturned
    /\ errFirst
    /\ nFetch = 3
    /\ FindFinishedExport(j[1].tasks) # <<>>

\* C6: the response after 40 fetches that all returned without a finished
\* export-1 file and without job status "error" is the response returned when
\* a poll reports job status "error" with no finished export file: both are
\* status 500 with the body { error: "Conversion not finished or failed" }.
C6_ExhaustedSameAsError ==
    LET exhausted == nReturned = MaxAttempts /\ ~sawFile /\ ~sawError
        errorNoFile == sawError /\ ~sawFile
        unresolved == Response(500, [error |-> "Conversion not finished or failed"])
    IN RemoteReturned =>
          /\ exhausted => r_response = <<unresolved>>
          /\ errorNoFile => r_response = <<unresolved>>

\* C6 witness: all 40 fetches returned, none with a file or an error status,
\* and the handler has returned.
C6_Witness ==
    /\ RemoteReturned
    /\ nReturned = MaxAttempts
    /\ ~sawFile
    /\ ~sawError

\* C7: one request issues at most 40 job-status fetches, each preceded by
\* one sleep, and the handler eventually returns.
C7_BoundedPolling ==
    /\ [](/\ nFetch <= MaxAttempts
          /\ nSleep <= MaxAttempts
          /\ IF r_pc = "sleep" THEN nSleep = nFetch + 1 ELSE nSleep = nFetch)
    /\ <>RemoteReturned

\* C7 witness: the handler has returned after 40 sleeps and 40 fetches.
C7_Witness ==
    /\ RemoteReturned
    /\ nFetch = MaxAttempts
    /\ nSleep = MaxAttempts

\* The body as sent carries no non-empty fileUrl or no non-empty target.
BodyLacksField(body) ==
    \/ body.kind # "object"
    \/ Falsy(body.fileUrl)
    \/ Falsy(body.target)

\* C8: a request whose method is not POST gets 405; otherwise a request whose
\* body lacks a non-empty fileUrl or a non-empty target gets 400; otherwise,
\* with no API credential configured, it gets 500; in all three cases no
\* job-creation or status call is made.
C8_GateAsClaimed ==
    RemoteReturned =>
        /\ event.httpMethod # "POST" =>
              r_response[1].statusCode = 405 /\ NoRemoteCall
        /\ (event.httpMethod = "POST" /\ BodyLacksField(event.body)) =>
              r_response[1].statusCode = 400 /\ NoRemoteCall
        /\ (event.httpMethod = "POST" /\ ~BodyLacksField(event.body)
              /\ Falsy(apiKey)) =>
              r_response[1].statusCode = 500 /\ NoRemoteCall

\* C12: every invocation returns exactly one response, the failures of the
\* job-creation call and of any status fetch included: the handler eventually
\* returns, the response it returned never changes, its status is one of 200,
\* 400, 405, 500 and, when the status is not 200, its body has an error field.
\* After a status fetch has failed the handler has returned status 500 and
\* makes no further status fetch.
AFetchFailed == nFetch > nReturned /\ r_pc # "fetch"
C12_OneStructuredResponse ==
    /\ <>RemoteReturned
    /\ [](r_response # <<>> <=> RemoteReturned)
    /\ [](RemoteReturned =>
            /\ Len(r_response) = 1
            /\ r_response[1].statusCode \in {200, 400, 405, 500}
            /\ r_response[1].statusCode # 200 =>
                  "error" \in DOMAIN r_response[1].body)
    /\ [](AFetchFailed => RemoteReturned /\ r_response[1].statusCode = 500)
    /\ [][RemoteReturned =>
            r_response' = r_response /\ nFetch' = nFetch /\ nCreate' = nCreate]_vars
\* The third status fetch failed and the handler returned.
C12_Witness ==
    /\ RemoteReturned
    /\ nFetch = 3 /\ nReturned = 2
    /\ r_response[1].body.error = "Server error"

\* C13: once a fetched response has reported the job status "error" the
\* request ends in a failure: never status 200, never a result field.
C13_ErrorStatusNeverSucceeds ==
    (RemoteReturned /\ sawError) =>
        /\ r_response[1].statusCode # 200
        /\ DOMAIN r_response[1].body \cap ResultFields = {}

\* C14: polling stops at the first terminal observation. Once a fetched
\* response has shown export-1 finished with a file, or the job status
\* "error", the handler has returned and the numbers of status fetches and of
\* sleeps both equal the index of that response; a request whose status
\* fetches all returned without a terminal observation made 40 of them.
C14_StopsAtFirstTerminal ==
    /\ firstTerminal > 0 =>
          /\ RemoteReturned
          /\ nFetch = firstTerminal
          /\ nSleep = firstTerminal
    /\ (RemoteReturned /\ firstTerminal = 0 /\ nFetch > 0 /\ nFetch = nReturned) =>
          nFetch = MaxAttempts
\* The third fetched response was the first terminal one, and the handler
\* returned.
C14_Witness ==
    /\ RemoteReturned
    /\ firstTerminal = 3
    /\ nFetch = 3

\* C15: a request makes at most one job-creation call. When that call has
\* failed, or its response carried no job id, the handler has returned status
\* 500 without any sleep or status fetch.
CreateFailedOrNoId ==
    /\ nCreate = 1
    /\ r_pc # "create"
    /\ jobId \in {Undefined, ""}
C15_CreateIsFailFast ==
    /\ nCreate <= 1
    /\ CreateFailedOrNoId =>
          /\ RemoteReturned
          /\ r_response[1].statusCode = 500
          /\ nFetch = 0
          /\ nSleep = 0
\* The job-creation response carried an empty job id and the handler returned.
C15_Witness ==
    /\ RemoteReturned
    /\ nCreate = 1
    /\ jobId = ""
    /\ r_response[1].body.error = "Failed to create job"

\* C20: a response with export-1 finished but without a file, the job status
\* not being "error", is not terminal. With attempts left the handler sleeps
\* again after it; the request succeeds if a later response shows export-1
\* finished with a file, and a request that used its 40 attempts without one
\* gets status 500 "Conversion not finished or failed".
C20_EmptyExportKeepsPolling ==
    /\ [][(nReturned' = nReturned + 1
             /\ ExportFinishedWithoutFile(j'[1])
             /\ nReturned' < MaxAttempts) => r_pc' = "sleep"]_vars
    /\ []((RemoteReturned /\ sawEmpty /\ sawFile) =>
             /\ r_response[1].statusCode = 200
             /\ r_response[1].body.downloadUrl = fileOut[1].url)
    /\ []((RemoteReturned /\ sawEmpty /\ ~sawFile /\ nReturned = MaxAttempts) =>
             r_response[1] =
               Response(500, [error |-> "Conversion not finished or failed"]))
\* A response without a file was followed by one with a file, and the third
\* response brought the success.
C20_Witness ==
    /\ RemoteReturned
    /\ sawEmpty
    /\ nReturned = 3
    /\ r_response[1].statusCode = 200


(***************************************************************************)
(* Claims on Upload mode and on the validation gate                        *)
(***************************************************************************)
Responded == u_pc = "responded"
ReachedRouteHandler == u_pc \notin {"received", "errorHandler"} /\ next_err = <<>>

\* The banned content types, as the claim lists them.
BannedTypes ==
    {"application/x-msdownload", "application/x-dosexec",
     "application/x-executable", "application/x-sh", "application/x-binary"}
FileIsBanned == req.file # <<>> /\ req.file[1].mimetype \in BannedTypes
FileIsOversized == req.file # <<>> /\ req.file[1].size > FileSizeLimit

\* The request as the route handler receives it: no target, or an empty one.
TargetIsEmpty ==
    \/ req.target.kind = "undefined"
    \/ req.target.kind = "string" /\ req.target.value = <<>>
\* The target is one of CONVERSION_MAP[content type], in any letter case.
TargetIsListed ==
    /\ req.target.kind = "string"
    /\ reqFile[1].mimetype \in DOMAIN CONVERSION_MAP
    /\ \E k \in 1..Len(CONVERSION_MAP[reqFile[1].mimetype]) :
          IsCaseVariant(req.target.value, CONVERSION_MAP[reqFile[1].mimetype][k])
InvalidForRouteHandler ==
    \/ reqFile = <<>>
    \/ TargetIsEmpty
    \/ reqFile[1].mimetype \notin DOMAIN CONVERSION_MAP
    \/ ~TargetIsListed

\* C1: every request that reaches the route handler with no file, an empty
\* target, a content type that is not a key of CONVERSION_MAP, or a target
\* not in CONVERSION_MAP[content type] is answered with status 400, and no
\* job-creation, upload or wait call is made for it.
C1_InvalidRequestGets400 ==
    (ReachedRouteHandler /\ InvalidForRouteHandler) =>
        /\ u_calls = <<>>
        /\ Responded => u_response[1].status = 400

\* C2: a request whose file has a banned content type is rejected by the
\* upload middleware: the route handler never runs for it, no job-creation,
\* upload or wait call is ever made, and the response is a failure.
C2_BannedTypeNeverReachesService ==
    FileIsBanned =>
        /\ u_calls = <<>>
        /\ u_pc \in {"received", "errorHandler", "responded"}
        /\ Responded =>
              /\ next_err # <<>>
              /\ u_response[1].status >= 400
              /\ "error" \in DOMAIN u_response[1].body

\* C2 witness: a shell script was uploaded and the request has been answered.
C2_Witness ==
    /\ Responded
    /\ req.file # <<>>
    /\ req.file[1].mimetype = "application/x-sh"
    /\ req.target.kind = "string"
    /\ req.target.value = pdf

\* C3: every client input error is answered with status 400 and a structured
\* error body: an upload the middleware rejects because the file exceeds
\* MAX_FILE_SIZE_MB (the body names the limit) or has a banned content type,
\* as well as the errors the route handler detects (no file, missing target,
\* unsupported source type, disallowed target). The handler-detected cases
\* are taken with a string target and a type/subtype content type; the other
\* shapes of those two inputs are the matter of C1.
C3_ClientErrorsGet400 ==
    LET byMiddleware == FileIsBanned \/ FileIsOversized
        byHandler == /\ next_err = <<>>
                     /\ InvalidForRouteHandler
                     /\ req.target.kind # "array"
                     /\ (reqFile # <<>> =>
                            reqFile[1].mimetype \notin ObjectPrototypeKeys)
    IN (Responded /\ (byMiddleware \/ byHandler)) =>
          /\ u_response[1].status = 400
          /\ "error" \in DOMAIN u_response[1].body
          /\ (FileIsOversized /\ ~FileIsBanned) =>
                u_response[1].body.error = "Max file size is ${MAX_FILE_SIZE_MB}MB."

\* C10: when the push of the file to the signed upload URL is rejected with
\* a transport error, the response status is the upstream status when that
\* is in 400..599 and 500 otherwise (no upstream response included), the
\* body carries the upstream status and payload (500 and null where there is
\* none), and the wait call is never made.
C10_UploadFailurePassedThrough ==
    upErr # <<>> =>
        /\ \A k \in 1..Len(u_calls) : u_calls[k] # "jobs.wait"
        /\ Responded
        /\ u_response[1].status =
              IF upErr[1].hasResponse /\ upErr[1].status \in 400..599
              THEN upErr[1].status ELSE 500
        /\ u_response[1].body.details.status =
              IF upErr[1].hasResponse THEN upErr[1].status ELSE 500
        /\ u_response[1].body.details.data =
              IF upErr[1].hasResponse /\ upErr[1].data \notin {Undefined, ""}
              THEN upErr[1].data ELSE Null

\* C10 witness: the upload URL answered 403 with a payload and the request
\* has been answered.
C10_Witness ==
    /\ Responded
    /\ upErr # <<>>
    /\ upErr[1].hasResponse
    /\ upErr[1].status = 403
    /\ upErr[1].data = "quota exceeded"
    /\ u_calls = <<"jobs.create", "upload">>

\* C9: isTargetAllowed returns false for every target when the content type
\* is not a key of CONVERSION_MAP, returns true for every pair whose target
\* is in CONVERSION_MAP[content type] whatever the letter case of the target,
\* and never changes CONVERSION_MAP.
C9_GateAsClaimed ==
    v_pc = "returned" =>
        /\ v_mime \notin DOMAIN CONVERSION_MAP =>
              v_result = <<[threw |-> FALSE, value |-> FALSE]>>
        /\ (/\ v_mime \in DOMAIN CONVERSION_MAP
            /\ \E k \in 1..Len(CONVERSION_MAP[v_mime]) :
                  IsCaseVariant(v_target, CONVERSION_MAP[v_mime][k])) =>
              v_result = <<[threw |-> FALSE, value |-> TRUE]>>
        /\ conversionMap = CONVERSION_MAP


\* C11: every success response carries downloadUrl, filename, sizeBytes and
\* contentType equal to url, filename, size and content_type of the first
\* file of the finished export-1 task of the job the wait call returned, and
\* a meta block whose original.name, original.mime and original.size are the
\* uploaded file's name, declared content type and size and whose target is
\* the requested target in lower case.
C11_SuccessBodyAndMeta ==
    (Responded /\ u_response[1].status = 200) =>
        /\ completedJob # <<>>
        /\ ExportFinishedWithFile(completedJob[1])
        /\ u_response[1].body.downloadUrl = ExportFileOf(completedJob[1]).url
        /\ u_response[1].body.filename = ExportFileOf(completedJob[1]).filename
        /\ u_response[1].body.sizeBytes = ExportFileOf(completedJob[1]).size
        /\ u_response[1].body.contentType = ExportFileOf(completedJob[1]).content_type
        /\ req.file # <<>>
        /\ u_response[1].body.meta.original =
              [name |-> req.file[1].originalname, mime |-> req.file[1].mimetype,
               size |-> req.file[1].size]
        /\ req.target.kind = "string"
        /\ IsCaseVariant(req.target.value, u_response[1].body.meta.target)
        /\ \A k \in 1..Len(u_response[1].body.meta.target) :
              \A m \in 1..Len(UpperLetters) :
                 u_response[1].body.meta.target[k] # UpperLetters[m]

\* C11 witness: a png uploaded with target "PDF" has been converted and the
\* success response sent, the export task listing two files.
C11_Witness ==
    /\ Responded
    /\ u_response[1].status = 200
    /\ req.target.value = <<"P", "D", "F">>
    /\ ExportFileOf(completedJob[1]) = F2
    /\ \E k \in 1..Len(completedJob[1].tasks) :
          Len(completedJob[1].tasks[k].result.files) = 2

\* The created job has no import-1 task, or the task has no result, or the
\* result lacks the upload form.
ImportUnusable(jb) ==
    \A k \in 1..Len(jb.tasks) :
        jb.tasks[k].name = "import-1" =>
            ~jb.tasks[k].result.present \/ ~jb.tasks[k].result.hasForm

\* C16: when the created job has no import-1 task, or the task has no result,
\* or the result is malformed (no upload form), the handler answers 500 with
\* the error "Failed to initialize upload with conversion service.", and
\* neither the upload call nor the wait call is made.
C16_UnusableImportFailsInit ==
    (job # <<>> /\ ImportUnusable(job[1])) =>
        /\ u_calls = <<"jobs.create">>
        /\ Responded
        /\ u_response[1] =
              Sent(500, [error |-> "Failed to initialize upload with conversion service."])

\* C17: the external calls of one request are made in the order
\* job-creation, upload push, wait, each at most once; the upload push only
\* after job creation returned an import-1 result, the wait call only after
\* the push succeeded, a success response only after the wait call returned;
\* once the request is answered (every failure answers it) no call follows.
C17_CallOrder ==
    /\ [](/\ u_calls \in {<<>>, <<"jobs.create">>, <<"jobs.create", "upload">>,
                          <<"jobs.create", "upload", "jobs.wait">>}
          /\ Len(u_calls) >= 2 =>
                /\ job # <<>>
                /\ \E k \in 1..Len(job[1].tasks) :
                      /\ job[1].tasks[k].name = "import-1"
                      /\ job[1].tasks[k].result.present
          /\ Len(u_calls) = 3 => upErr = <<>>
          /\ (Responded /\ u_response[1].status = 200) =>
                Len(u_calls) = 3 /\ completedJob # <<>>
          /\ (u_response # <<>> /\ u_response[1].status # 200) => Responded)
    /\ [][Responded => (u_calls' = u_calls /\ u_response' = u_response)]_vars

\* C17 witness: all three calls were made and the success response sent.
C17_Witness ==
    /\ Responded
    /\ u_response[1].status = 200
    /\ u_calls = <<"jobs.create", "upload", "jobs.wait">>

\* C18: when the job returned by the wait call has no finished export-1 task,
\* or that task has no result, no file list or an empty one (a job that
\* ended in error status included), the handler answers 500 with the error
\* "Conversion finished, but no output file was provided." and never success.
C18_NoOutputFileIsFailure ==
    (completedJob # <<>> /\ ~ExportFinishedWithFile(completedJob[1])) =>
        /\ Responded
        /\ u_response[1] =
              Sent(500, [error |-> "Conversion finished, but no output file was provided."])

\* C18 witness: the job ended in error status, its export-1 task unfinished
\* though listing a file, and the request has been answered.
C18_Witness ==
    /\ Responded
    /\ completedJob # <<>>
    /\ completedJob[1].status = "error"
    /\ \E k \in 1..Len(completedJob[1].tasks) :
          /\ completedJob[1].tasks[k].name = "export-1"
          /\ completedJob[1].tasks[k].status = "waiting"
          /\ Len(completedJob[1].tasks[k].result.files) = 1

(***************************************************************************)
(* Two concurrent invocations of the Remote-URL handler                    *)
(* Every variable of the handler (jobId, fileOut, done, i, j) is declared  *)
(* inside the async function, so each invocation has its own copy: the     *)
(* copies are the entries of functions over Reqs. The invocations          *)
(* interleave at their awaits. The service gives each creation call a      *)
(* fresh job id and answers the status fetches of a job by that job's      *)
(* script.                                                                 *)
(***************************************************************************)
Reqs == {1, 2}
JobIds == 1..Cardinality(Reqs)

\* Latest status fetch of a job at which its script turns terminal.
TerminalBy == 2

\* What the status fetches of one job answer: "processing" without tasks up
\* to fetch at - 1, then the outcome from fetch at on (at = 0: never).
Scripts ==
    {[at |-> 0, outcome |-> "processing"]}
    \cup [at : 1..TerminalBy, outcome : {"file1", "file2", "error", "rejects"}]

FinishedExportOf(file) ==
    [name |-> "export-1", status |-> "finished",
     result |-> [NoResult EXCEPT !.present = TRUE, !.hasFiles = TRUE,
                                 !.files = <<file>>]]

\* The answer of the k-th status fetch of a job with script sc: the axios.get
\* rejects, or resolves with data.
ScriptAnswer(sc, k) ==
    LET outcome == IF sc.at = 0 \/ k < sc.at THEN "processing" ELSE sc.outcome
    IN [rejects |-> outcome = "rejects",
        data |-> CASE outcome = "file1" ->
                        [status |-> "finished", tasks |-> <<FinishedExportOf(F1)>>]
                   [] outcome = "file2" ->
                        [status |-> "finished", tasks |-> <<FinishedExportOf(F2)>>]
                   [] outcome = "error" -> [status |-> "error", tasks |-> <<>>]
                   [] OTHER -> [status |-> "processing", tasks |-> <<>>]]

\* Line 33: the job id in the URL of the status fetch is the invocation's own
\* const jobId.
FetchTargetShared(r) == svcJobs
FetchTarget(r) == c_jobId[r]

ConcurrentIdle ==
    /\ c_pc = [r \in Reqs |-> "idle"]
    /\ c_jobId = [r \in Reqs |-> 0]
    /\ c_i = [r \in Reqs |-> 0]
    /\ c_done = [r \in Reqs |-> FALSE]
    /\ c_fileOut = [r \in Reqs |-> <<>>]
    /\ c_url = [r \in Reqs |-> 0]
    /\ c_response = [r \in Reqs |-> <<>>]
    /\ c_fetched = [r \in Reqs |-> {}]
    /\ svcJobs = 0
    /\ svcPolls = [id \in JobIds |-> 0]
    /\ script = [id \in JobIds |-> [at |-> 0, outcome |-> "processing"]]

\* Two valid POST invocations arrive; the API key is set.
ConcurrentInit ==
    /\ c_pc = [r \in Reqs |-> "start"]
    /\ c_jobId = [r \in Reqs |-> 0]
    /\ c_i = [r \in Reqs |-> 0]
    /\ c_done = [r \in Reqs |-> FALSE]
    /\ c_fileOut = [r \in Reqs |-> <<>>]
    /\ c_url = [r \in Reqs |-> 0]
    /\ c_response = [r \in Reqs |-> <<>>]
    /\ c_fetched = [r \in Reqs |-> {}]
    /\ svcJobs = 0
    /\ svcPolls = [id \in JobIds |-> 0]
    /\ script \in [JobIds -> Scripts]

\* Lines 5-24 of one invocation: the gate passes and axios.post is issued.
CHandlerEntry ==
    /\ UNCHANGED <<rvars, uvars, vvars>>
    /\ \E r \in Reqs :
        /\ c_pc[r] = "start"
        /\ c_pc' = [c_pc EXCEPT ![r] = "create"]
    /\ UNCHANGED <<c_jobId, c_i, c_done, c_fileOut, c_url, c_response, c_fetched,
                   svcJobs, svcPolls, script>>

\* Lines 26-32 of one invocation: the service creates a job and returns its
\* id; the loop is entered and the first sleep starts.
CCreateReturns ==
    /\ UNCHANGED <<rvars, uvars, vvars>>
    /\ \E r \in Reqs :
        /\ c_pc[r] = "create"
        /\ svcJobs' = svcJobs + 1
        /\ c_jobId' = [c_jobId EXCEPT ![r] = svcJobs + 1]
        /\ c_i' = [c_i EXCEPT ![r] = 0]
        /\ c_pc' = [c_pc EXCEPT ![r] = "sleep"]
    /\ UNCHANGED <<c_done, c_fileOut, c_url, c_response, c_fetched, svcPolls,
                   script>>

\* Lines 32-33 of one invocation: the sleep ends and the status fetch is
\* issued.
CSleepReturns ==
    /\ UNCHANGED <<rvars, uvars, vvars>>
    /\ \E r \in Reqs :
        /\ c_pc[r] = "sleep"
        /\ c_url' = [c_url EXCEPT ![r] = FetchTarget(r)]
        /\ c_fetched' = [c_fetched EXCEPT ![r] = @ \cup {FetchTarget(r)}]
        /\ c_pc' = [c_pc EXCEPT ![r] = "fetch"]
    /\ UNCHANGED <<c_jobId, c_i, c_done, c_fileOut, c_response, svcJobs,
                   svcPolls, script>>

\* The status fetch of one invocation rejects: lines 58-60.
CFetchFails ==
    /\ UNCHANGED <<rvars, uvars, vvars>>
    /\ \E r \in Reqs :
        /\ c_pc[r] = "fetch"
        /\ ScriptAnswer(script[c_url[r]], svcPolls[c_url[r]] + 1).rejects
        /\ svcPolls' = [svcPolls EXCEPT ![c_url[r]] = @ + 1]
        /\ c_response' = [c_response EXCEPT ![r] = <<CatchResponse("Request failed")>>]
        /\ c_pc' = [c_pc EXCEPT ![r] = "returned"]
    /\ UNCHANGED <<c_jobId, c_i, c_done, c_fileOut, c_url, c_fetched, svcJobs,
                   script>>

\* The status fetch of one invocation resolves: lines 34-57.
CFetchReturns ==
    /\ UNCHANGED <<rvars, uvars, vvars>>
    /\ \E r \in Reqs :
        /\ c_pc[r] = "fetch"
        /\ ~ScriptAnswer(script[c_url[r]], svcPolls[c_url[r]] + 1).rejects
        /\ svcPolls' = [svcPolls EXCEPT ![c_url[r]] = @ + 1]
        /\ LET data == ScriptAnswer(script[c_url[r]], svcPolls[c_url[r]] + 1).data
               f == FirstFile(FindFinishedExport(data.tasks))
               fileOut1 == IF f # <<>> THEN f ELSE c_fileOut[r]
               done1 == DoneAfter(data, c_done[r])
               i1 == IF Failed(data) THEN c_i[r] ELSE c_i[r] + 1
           IN /\ c_fileOut' = [c_fileOut EXCEPT ![r] = fileOut1]
              /\ c_done' = [c_done EXCEPT ![r] = done1]
              /\ c_i' = [c_i EXCEPT ![r] = i1]
              /\ IF ~Failed(data) /\ LoopContinues(i1, done1)
                 THEN /\ c_pc' = [c_pc EXCEPT ![r] = "sleep"]
                      /\ UNCHANGED c_response
                 ELSE /\ c_pc' = [c_pc EXCEPT ![r] = "returned"]
                      /\ c_response' =
                           [c_response EXCEPT ![r] = <<AfterLoop(fileOut1)>>]
    /\ UNCHANGED <<c_jobId, c_url, c_fetched, svcJobs, script>>

ConcurrentNext ==
    \/ CHandlerEntry
    \/ CCreateReturns
    \/ CSleepReturns
    \/ CFetchFails
    \/ CFetchReturns

\* The response of an invocation that runs alone and whose job answers by
\* script sc: the loop of lines 30-43 from counter k, flag d and file fo, then
\* lines 45-57.
RECURSIVE PollAlone(_, _, _, _)
PollAlone(sc, k, d, fo) ==
    IF ~LoopContinues(k, d) THEN AfterLoop(fo)
    ELSE LET answer == ScriptAnswer(sc, k + 1)
             f == FirstFile(FindFinishedExport(answer.data.tasks))
             fo1 == IF f # <<>> THEN f ELSE fo
         IN IF answer.rejects THEN CatchResponse("Request failed")
            ELSE IF Failed(answer.data) THEN AfterLoop(fo1)
            ELSE PollAlone(sc, k + 1, DoneAfter(answer.data, d), fo1)
RunAlone(sc) == PollAlone(sc, 0, FALSE, <<>>)

\* C19: two invocations interleaved at their awaits are independent: each
\* fetches the status of no job but the one its own creation call returned,
\* and the response of each is the response of an invocation that runs alone
\* against the answers of that job.
C19_ConcurrentIndependent ==
    \A r \in Reqs :
        /\ c_fetched[r] \subseteq {c_jobId[r]}
        /\ c_pc[r] = "returned" =>
              c_response[r] = <<RunAlone(script[c_jobId[r]])>>
\* Both invocations have returned after two status fetches each; invocation 1
\* owns the job created second and succeeded, invocation 2 failed.
C19_Witness ==
    /\ \A r \in Reqs : c_pc[r] = "returned"
    /\ c_jobId[1] = 2
    /\ svcPolls = [id \in JobIds |-> 2]
    /\ c_response[1][1].statusCode = 200
    /\ c_response[2][1].statusCode = 500

(***************************************************************************)
(* Specifications                                                          *)
(***************************************************************************)
UploadIdle ==
    /\ u_pc = "idle" /\ req = [file |-> <<>>, target |-> [kind |-> "undefined", value |-> <<>>]] /\ reqFile = <<>> /\ next_err = <<>>
    /\ target = <<>> /\ job = <<>> /\ u_response = <<>> /\ u_calls = <<>>
    /\ upErr = <<>> /\ completedJob = <<>>

ValidateIdle ==
    /\ v_pc = "idle" /\ v_mime = "" /\ v_target = <<>> /\ v_result = <<>>

\* One Remote-URL request, against every behaviour of the service.
InitRemote ==
    /\ RemoteInit /\ UploadIdle /\ ValidateIdle /\ ConcurrentIdle
    /\ conversionMap = CONVERSION_MAP

SpecRemote == InitRemote /\ [][RemoteNext]_vars

\* The same, where every pending call, timer and continuation is eventually
\* served: each call of the service returns or fails, and the event loop runs
\* the handler's continuation.
FairSpecRemote ==
    /\ SpecRemote
    /\ WF_vars(RemoteNext)

\* The validation gate applied once to every pair of arguments.
InitValidate ==
    /\ ValidateInit /\ RemoteIdle /\ UploadIdle /\ ConcurrentIdle
    /\ conversionMap = CONVERSION_MAP

SpecValidate == InitValidate /\ [][ValidateNext]_vars

\* One upload request, against every behaviour of the service.
InitUpload ==
    /\ UploadInit /\ RemoteIdle /\ ValidateIdle /\ ConcurrentIdle
    /\ conversionMap = CONVERSION_MAP

SpecUpload == InitUpload /\ [][UploadNext]_vars

\* Two concurrent Remote-URL invocations, against every pair of job scripts.
InitConcurrent ==
    /\ ConcurrentInit /\ RemoteIdle /\ UploadIdle /\ ValidateIdle
    /\ conversionMap = CONVERSION_MAP

SpecConcurrent == InitConcurrent /\ [][ConcurrentNext]_vars

====
